---- MODULE Spec2Model ----
(***************************************************************************)
(* A model of the FortiGate policy auditor (Policy-Check/PolicyCheck.py):  *)
(* the field normalizer, the four classifiers, the recommendation          *)
(* synthesizer, the report assembler and the control flow of main().       *)
(*                                                                         *)
(* Strings are sequences of one-character strings, so that upper(),        *)
(* lower(), strip(), substring containment, the '|' join and the regular   *)
(* expression of _extract_bytes_value are computed character by character. *)
(* A JSON field value is a record [kind, items]:                           *)
(*   kind = "absent"  the key is not in the policy object                  *)
(*   kind = "null"    the key is there with JSON null                      *)
(*   kind = "str"     a JSON string, items = << the string >>              *)
(*   kind = "list"    a JSON list of strings, items = its elements         *)
(***************************************************************************)
EXTENDS Integers, Sequences, FiniteSets, TLC

(***************************************************************************)
(* Bounds of the model.                                                    *)
(***************************************************************************)
MaxLen == 3
MaxRules == 3
MaxRulesPerm == 2
MaxRulesDup == 4
MaxRulesLog == 3
MaxRulesUnused == 2
MaxWrapped == 1
MaxRulesOrder == 2
MaxRulesBar == 2

(***************************************************************************)
(* Characters and the str methods the auditor uses.                        *)
(***************************************************************************)
Digits == {"0", "1", "2", "3", "4", "5", "6", "7", "8", "9"}

Lowers == << "a", "b", "c", "d", "e", "f", "g", "h", "i", "j", "k", "l", "m",
             "n", "o", "p", "q", "r", "s", "t", "u", "v", "w", "x", "y", "z" >>

Uppers == << "A", "B", "C", "D", "E", "F", "G", "H", "I", "J", "K", "L", "M",
             "N", "O", "P", "Q", "R", "S", "T", "U", "V", "W", "X", "Y", "Z" >>

Whitespace == {" ", "\t", "\n"}

DigitValue(c) ==
    CASE c = "0" -> 0 [] c = "1" -> 1 [] c = "2" -> 2 [] c = "3" -> 3
      [] c = "4" -> 4 [] c = "5" -> 5 [] c = "6" -> 6 [] c = "7" -> 7
      [] c = "8" -> 8 [] c = "9" -> 9

DigitChar(n) ==
    CASE n = 0 -> "0" [] n = 1 -> "1" [] n = 2 -> "2" [] n = 3 -> "3"
      [] n = 4 -> "4" [] n = 5 -> "5" [] n = 6 -> "6" [] n = 7 -> "7"
      [] n = 8 -> "8" [] n = 9 -> "9"

UpperChar(c) ==
    IF \E i \in 1..26 : Lowers[i] = c
    THEN Uppers[CHOOSE i \in 1..26 : Lowers[i] = c]
    ELSE c

LowerChar(c) ==
    IF \E i \in 1..26 : Uppers[i] = c
    THEN Lowers[CHOOSE i \in 1..26 : Uppers[i] = c]
    ELSE c

\* str.upper()
Upper(s) == [i \in 1..Len(s) |-> UpperChar(s[i])]

\* str.lower()
Lower(s) == [i \in 1..Len(s) |-> LowerChar(s[i])]

RECURSIVE LStrip(_)
LStrip(s) ==
    IF s # << >> /\ Head(s) \in Whitespace THEN LStrip(Tail(s)) ELSE s

RECURSIVE RStrip(_)
RStrip(s) ==
    IF s # << >> /\ s[Len(s)] \in Whitespace
    THEN RStrip(SubSeq(s, 1, Len(s) - 1))
    ELSE s

\* str.strip()
Strip(s) == RStrip(LStrip(s))

\* sub in s
Contains(sub, s) ==
    \E i \in 1..(Len(s) - Len(sub) + 1) : SubSeq(s, i, i + Len(sub) - 1) = sub

\* sep.join(items)
RECURSIVE Join(_, _)
Join(items, sep) ==
    IF items = << >> THEN << >>
    ELSE IF Len(items) = 1 THEN items[1]
    ELSE items[1] \o sep \o Join(Tail(items), sep)

\* str(n) of a natural number
RECURSIVE IntToStr(_)
IntToStr(n) ==
    IF n < 10 THEN << DigitChar(n) >>
    ELSE IntToStr(n \div 10) \o << DigitChar(n % 10) >>

(***************************************************************************)
(* The string literals of the source.                                      *)
(***************************************************************************)
sEmpty == << >>
sAll == << "a", "l", "l" >>
sAny == << "a", "n", "y" >>
sNone == << "n", "o", "n", "e" >>
sDisable == << "d", "i", "s", "a", "b", "l", "e" >>
sACCEPT == << "A", "C", "C", "E", "P", "T" >>
sZeroB == << "0", " ", "B" >>
sCommaSpace == << ",", " " >>
sBar == << "|" >>
sRule_ == << "R", "u", "l", "e", "_" >>

(***************************************************************************)
(* JSON field values and policy.get(key, default).                         *)
(***************************************************************************)
Absent == [kind |-> "absent", items |-> << >>]
Null == [kind |-> "null", items |-> << >>]
Str(s) == [kind |-> "str", items |-> << s >>]
List(items) == [kind |-> "list", items |-> items]

\* dict.get(key, default): the default only replaces a missing key
Get(value, default) == IF value.kind = "absent" THEN Str(default) ELSE value

\* Python truthiness of a field value
Truthy(value) ==
    CASE value.kind = "str" -> value.items[1] # << >>
      [] value.kind = "list" -> value.items # << >>
      [] OTHER -> FALSE

\* str(value) of a truthy value: a list prints as its repr
PyStr(value) ==
    IF value.kind = "list"
    THEN << "[" >>
         \o Join([i \in 1..Len(value.items) |->
                     << "'" >> \o value.items[i] \o << "'" >>], sCommaSpace)
         \o << "]" >>
    ELSE value.items[1]

_safe_string(value) ==
    IF value.kind = "list" THEN Join(value.items, sCommaSpace)
    ELSE IF Truthy(value) THEN PyStr(value)
    ELSE sEmpty

(***************************************************************************)
(* _extract_bytes_value.  A number is [float, num, scale], standing for    *)
(* num / 10^scale; the int 0 the function returns is [FALSE, 0, 0].        *)
(***************************************************************************)
IntZero == [float |-> FALSE, num |-> 0, scale |-> 0]

\* the position of the first digit at or after i, 0 if there is none
RECURSIVE SearchDigit(_, _)
SearchDigit(s, i) ==
    IF i > Len(s) THEN 0
    ELSE IF s[i] \in Digits THEN i
    ELSE SearchDigit(s, i + 1)

\* \d+ is greedy: one past the digit run that starts at i
RECURSIVE ScanDigits(_, _)
ScanDigits(s, i) ==
    IF i <= Len(s) /\ s[i] \in Digits THEN ScanDigits(s, i + 1) ELSE i

\* a variant that matches at the start of the string only, as re.match does
ReMatchNumber(s) ==
    IF s = << >> \/ s[1] \notin Digits THEN << >>
    ELSE LET b == ScanDigits(s, 1) IN
         IF b + 1 <= Len(s) /\ s[b] = "." /\ s[b + 1] \in Digits
         THEN SubSeq(s, 1, ScanDigits(s, b + 1) - 1)
         ELSE SubSeq(s, 1, b - 1)

\* re.search(r'(\d+(?:\.\d+)?)', s): group(1) of the leftmost match, << >>
\* when nothing matches
ReSearchNumber(s) ==
    LET a == SearchDigit(s, 1) IN
    IF a = 0 THEN << >>
    ELSE LET b == ScanDigits(s, a) IN
         IF b + 1 <= Len(s) /\ s[b] = "." /\ s[b + 1] \in Digits
         THEN SubSeq(s, a, ScanDigits(s, b + 1) - 1)
         ELSE SubSeq(s, a, b - 1)

RECURSIVE ParseDigits(_, _)
ParseDigits(s, acc) ==
    IF s = << >> THEN acc
    ELSE ParseDigits(Tail(s), 10 * acc + DigitValue(Head(s)))

\* float(token) of a token  digits [ "." digits ]
ParseFloat(token) ==
    LET dot == IF \E i \in 1..Len(token) : token[i] = "."
               THEN CHOOSE i \in 1..Len(token) : token[i] = "."
               ELSE 0
        whole == IF dot = 0 THEN token ELSE SubSeq(token, 1, dot - 1)
        frac == IF dot = 0 THEN << >> ELSE SubSeq(token, dot + 1, Len(token))
    IN [float |-> TRUE, num |-> ParseDigits(whole \o frac, 0), scale |-> Len(frac)]

_extract_bytes_value(bytes_str) ==
    IF ~Truthy(bytes_str) \/ bytes_str = Str(sZeroB) THEN IntZero
    ELSE LET token == ReSearchNumber(PyStr(bytes_str)) IN
         IF token # << >> THEN ParseFloat(token) ELSE IntZero

\* bytes_value == 0
IsZero(number) == number.num = 0

(***************************************************************************)
(* A policy is a record of the eight fields the auditor reads.  Positions  *)
(* are 1-based here: position k is enumerate()'s i + 1.                    *)
(***************************************************************************)
PolicyName(policy, k) == _safe_string(Get(policy.Policy, sRule_ \o IntToStr(k)))

ActionOf(policy) == Upper(_safe_string(Get(policy.Action, sEmpty)))

Positions(policies) == [k \in 1..Len(policies) |-> k]

\* the findings of the flagged positions, in input order
Collect(policies, flagged, finding) ==
    LET hits == SelectSeq(Positions(policies), LAMBDA k : flagged[k])
    IN [j \in 1..Len(hits) |-> finding[hits[j]]]

\* a variant that does not look at the action
ZeroBytesFlagged(policy) ==
    IsZero(_extract_bytes_value(Get(policy.Bytes, sZeroB)))

unused_rule_flagged(policy) ==
    /\ IsZero(_extract_bytes_value(Get(policy.Bytes, sZeroB)))
    /\ ActionOf(policy) = sACCEPT

audit_unused_rules(policies) ==
    Collect(policies,
        [k \in 1..Len(policies) |-> unused_rule_flagged(policies[k])],
        [k \in 1..Len(policies) |->
            [id |-> k,
             name |-> PolicyName(policies[k], k),
             action |-> ActionOf(policies[k]),
             bytes |-> _safe_string(Get(policies[k].Bytes, sZeroB)),
             source |-> _safe_string(Get(policies[k].Source, sEmpty)),
             destination |-> _safe_string(Get(policies[k].Destination, sEmpty)),
             service |-> _safe_string(Get(policies[k].Service, sEmpty))]])

\* a variant without the empty string among the wildcards
ContainsAnyOrAll(field) == Contains(sAny, field) \/ Contains(sAll, field)

\* src_any / dst_any / srv_any of a lower-cased field
is_any(field) ==
    \/ field \in {sAll, sAny, sEmpty}
    \/ Contains(sAny, field)
    \/ Contains(sAll, field)

src_any(policy) == is_any(Lower(_safe_string(Get(policy.Source, sEmpty))))
dst_any(policy) == is_any(Lower(_safe_string(Get(policy.Destination, sEmpty))))
srv_any(policy) == is_any(Lower(_safe_string(Get(policy.Service, sEmpty))))

permissive_flagged(policy) ==
    /\ ActionOf(policy) = sACCEPT
    /\ (src_any(policy) \/ dst_any(policy) \/ srv_any(policy))

permissive_critical(policy) ==
    src_any(policy) /\ dst_any(policy) /\ srv_any(policy)

rule_info(policies, k, risk_level) ==
    [id |-> k,
     name |-> PolicyName(policies[k], k),
     source |-> _safe_string(Get(policies[k].Source, sEmpty)),
     destination |-> _safe_string(Get(policies[k].Destination, sEmpty)),
     service |-> _safe_string(Get(policies[k].Service, sEmpty)),
     src_any |-> src_any(policies[k]),
     dst_any |-> dst_any(policies[k]),
     srv_any |-> srv_any(policies[k]),
     risk_level |-> risk_level]

audit_permissive_rules(policies) ==
    [all_all_rules |->
        Collect(policies,
            [k \in 1..Len(policies) |-> permissive_flagged(policies[k])
                       /\ permissive_critical(policies[k])],
            [k \in 1..Len(policies) |-> rule_info(policies, k, "CRITICAL")]),
     single_all_rules |->
        Collect(policies,
            [k \in 1..Len(policies) |-> permissive_flagged(policies[k])
                       /\ ~permissive_critical(policies[k])],
            [k \in 1..Len(policies) |-> rule_info(policies, k, "HIGH")])]

\* the signature string of an ACCEPT policy
signature(policy) ==
    Join(<< Strip(_safe_string(Get(policy.Source, sEmpty))),
            Strip(_safe_string(Get(policy.Destination, sEmpty))),
            Strip(_safe_string(Get(policy.Service, sEmpty))),
            Strip(_safe_string(Get(policy.InterfacePair, sEmpty))),
            ActionOf(policy) >>, sBar)

\* a variant that moves a group to the end whenever it grows
AppendToGroupMovingLast(groups, sig, rule) ==
    IF \E g \in 1..Len(groups) : groups[g].signature = sig
    THEN LET old == CHOOSE g \in 1..Len(groups) : groups[g].signature = sig
         IN SelectSeq(groups, LAMBDA group : group.signature # sig)
            \o << [groups[old] EXCEPT !.rules = Append(@, rule)] >>
    ELSE Append(groups, [signature |-> sig, rules |-> << rule >>])

\* rule_signatures[sig].append(rule): a defaultdict(list) keeps its keys in
\* the order of their first insertion
AppendToGroup(groups, sig, rule) ==
    IF \E g \in 1..Len(groups) : groups[g].signature = sig
    THEN [g \in 1..Len(groups) |->
             IF groups[g].signature = sig
             THEN [groups[g] EXCEPT !.rules = Append(@, rule)]
             ELSE groups[g]]
    ELSE Append(groups, [signature |-> sig, rules |-> << rule >>])

RECURSIVE rule_signatures(_, _)
rule_signatures(policies, n) ==
    IF n = 0 THEN << >>
    ELSE LET before == rule_signatures(policies, n - 1)
             policy == policies[n]
         IN IF ActionOf(policy) # sACCEPT THEN before
            ELSE AppendToGroup(before, signature(policy),
                     [id |-> n,
                      name |-> PolicyName(policy, n),
                      bytes |-> _safe_string(Get(policy.Bytes, sZeroB))])

\* a variant that keeps the groups of one rule
IsNonEmptyGroup(group) == Len(group.rules) > 0

is_duplicate_group(group) == Len(group.rules) > 1

audit_duplicate_rules(policies) ==
    LET groups == SelectSeq(rule_signatures(policies, Len(policies)),
                            is_duplicate_group)
    IN [g \in 1..Len(groups) |->
           [signature |-> groups[g].signature,
            rules |-> groups[g].rules,
            count |-> Len(groups[g].rules)]]

\* a variant that does not trim the log setting
UntrimmedNoLoggingFlagged(policy) ==
    Lower(_safe_string(Get(policy.Log, sEmpty))) \in {sEmpty, sNone, sDisable}

no_logging_flagged(policy) ==
    Lower(Strip(_safe_string(Get(policy.Log, sEmpty)))) \in {sEmpty, sNone, sDisable}

log_rule_info(policies, k) ==
    [id |-> k,
     name |-> PolicyName(policies[k], k),
     log_setting |-> _safe_string(Get(policies[k].Log, sEmpty)),
     action |-> _safe_string(Get(policies[k].Action, sEmpty)),
     bytes |-> _safe_string(Get(policies[k].Bytes, sZeroB))]

audit_logging(policies) ==
    [no_logging |->
        Collect(policies,
            [k \in 1..Len(policies) |-> no_logging_flagged(policies[k])],
            [k \in 1..Len(policies) |-> log_rule_info(policies, k)]),
     with_logging |->
        Collect(policies,
            [k \in 1..Len(policies) |-> ~no_logging_flagged(policies[k])],
            [k \in 1..Len(policies) |-> log_rule_info(policies, k)])]

(***************************************************************************)
(* The Results Map is a function from the keys written so far to their     *)
(* values; results.get(key) is falsy for a key that is not there.          *)
(***************************************************************************)
ResultsLen(results, key) == IF key \in DOMAIN results THEN Len(results[key]) ELSE 0

NoLoggingLen(results) ==
    IF "logging" \in DOMAIN results THEN Len(results["logging"].no_logging) ELSE 0

\* a variant that emits the entry whatever its count
AlwaysRecommend(condition, recommendation) == << recommendation >>

Recommend(condition, recommendation) ==
    IF condition THEN << recommendation >> ELSE << >>

UnusedRecommendation(results) ==
    Recommend(ResultsLen(results, "unused_rules") > 0,
        [priority |-> "HIGH", category |-> "Cleanup",
         issue |-> "Unused ACCEPT rules",
         count |-> ResultsLen(results, "unused_rules"),
         action |-> "Remove or disable these rules to reduce attack surface"])

AllAllRecommendation(results) ==
    Recommend(ResultsLen(results, "all_all_rules") > 0,
        [priority |-> "CRITICAL", category |-> "Security",
         issue |-> "Rules with ALL ALL configuration",
         count |-> ResultsLen(results, "all_all_rules"),
         action |-> "URGENT: Restrict source, destination and services - these rules allow everything"])

SingleAllRecommendation(results) ==
    Recommend(ResultsLen(results, "single_all_rules") > 0,
        [priority |-> "HIGH", category |-> "Security",
         issue |-> "Rules with single ALL configuration",
         count |-> ResultsLen(results, "single_all_rules"),
         action |-> "Restrict sources, destinations and services according to least privilege principle"])

DuplicateRecommendation(results) ==
    Recommend(ResultsLen(results, "duplicate_rules") > 0,
        [priority |-> "MEDIUM", category |-> "Optimization",
         issue |-> "Duplicate rules",
         count |-> ResultsLen(results, "duplicate_rules"),
         action |-> "Consolidate or remove redundant rules"])

LoggingRecommendation(results) ==
    Recommend(NoLoggingLen(results) > 0,
        [priority |-> "MEDIUM", category |-> "Monitoring",
         issue |-> "Rules without logging",
         count |-> NoLoggingLen(results),
         action |-> "Enable logging for traceability and monitoring"])

\* a variant that lists the entries by falling priority
CriticalFirstRecommendations(results) ==
    AllAllRecommendation(results) \o SingleAllRecommendation(results)
    \o UnusedRecommendation(results) \o DuplicateRecommendation(results)
    \o LoggingRecommendation(results)

_generate_recommendations(results) ==
    UnusedRecommendation(results) \o AllAllRecommendation(results)
    \o SingleAllRecommendation(results) \o DuplicateRecommendation(results)
    \o LoggingRecommendation(results)

\* a variant that truncates instead of rounding
TruncatedPercent(count, total) ==
    IF total > 0 THEN (10000 * count) \div total ELSE 0

\* round(count / total * 100, 2) if total > 0 else 0, in hundredths of a
\* percent.  Below 32 rules count * 10000 / total is never half way between
\* two integers, so rounding to nearest is what round() returns.
Percent(count, total) ==
    IF total > 0 THEN (20000 * count + total) \div (2 * total) ELSE 0

\* the report of generate_json_report, without its date
Report(policies, results) ==
    LET total == Len(policies) IN
    [audit_info |-> [total_rules |-> total],
     summary |->
        [total_rules_analyzed |-> total,
         all_all_rules_count |-> Len(results["all_all_rules"]),
         all_all_rules_percent |-> Percent(Len(results["all_all_rules"]), total),
         single_all_rules_count |-> Len(results["single_all_rules"]),
         single_all_rules_percent |-> Percent(Len(results["single_all_rules"]), total),
         duplicate_groups_count |-> Len(results["duplicate_rules"]),
         duplicate_groups_percent |-> Percent(Len(results["duplicate_rules"]), total),
         unused_rules_count |-> Len(results["unused_rules"]),
         unused_rules_percent |-> Percent(Len(results["unused_rules"]), total),
         rules_without_logging |-> Len(results["logging"].no_logging),
         rules_without_logging_percent |->
             Percent(Len(results["logging"].no_logging), total)],
     detailed_results |->
        [unused_rules |-> results["unused_rules"],
         all_all_rules |-> results["all_all_rules"],
         single_all_rules |-> results["single_all_rules"],
         duplicate_rules |-> results["duplicate_rules"],
         without_logging |-> results["logging"].no_logging],
     recommendations |-> _generate_recommendations(results)]

(***************************************************************************)
(* The document json.load returns.  shape "none" is load_json_from_file    *)
(* returning None (no file, or a file that does not parse); a dict holds   *)
(* its rule list under "policies" or "Policy", or has some "other" key, or *)
(* is "empty".                                                             *)
(***************************************************************************)
NoneDoc == [shape |-> "none", key |-> "-", rules |-> << >>]
ListDoc(rules) == [shape |-> "list", key |-> "-", rules |-> rules]
DictDoc(key, rules) == [shape |-> "dict", key |-> key, rules |-> rules]

\* not user_data
DocFalsy(doc) ==
    \/ doc.shape = "none"
    \/ doc.shape = "list" /\ doc.rules = << >>
    \/ doc.shape = "dict" /\ doc.key = "empty"

\* self.data.get('policies', self.data.get('Policy', []))
Unwrap(doc) ==
    IF doc.shape = "list" THEN doc.rules
    ELSE IF doc.key \in {"policies", "Policy"} THEN doc.rules
    ELSE << >>

(***************************************************************************)
(* Input documents.  Each family varies the fields one classifier reads    *)
(* and holds the others fixed.                                             *)
(***************************************************************************)
SeqsUpTo(S, n) == UNION {[1..k -> S] : k \in 0..n}

Rule(action, bytes, source, destination, service, interface_pair, log) ==
    [Policy |-> Absent, Action |-> action, Bytes |-> bytes, Source |-> source,
     Destination |-> destination, Service |-> service,
     InterfacePair |-> interface_pair, Log |-> log]

s_accept == << "a", "c", "c", "e", "p", "t" >>
s_Accept == << "A", "c", "c", "e", "p", "t" >>
sDENY == << "D", "E", "N", "Y" >>
sLan == << "l", "a", "n" >>
sTcp == << "t", "c", "p" >>
sPort1 == << "p", "o", "r", "t", "1" >>
s15420MB == << "1", "5", "4", "2", "0", " ", "M", "B" >>

\* the documents that are not a bare rule list
Wrapped(Rules) ==
    {NoneDoc, DictDoc("empty", << >>), DictDoc("other", << >>)}
    \cup {DictDoc(key, rules) : key \in {"policies", "Policy"},
                                rules \in SeqsUpTo(Rules, MaxWrapped)}

Documents(Rules, n) == {ListDoc(rules) : rules \in SeqsUpTo(Rules, n)} \cup Wrapped(Rules)

\* rules that fall in every category of the report
MixedRules ==
    {Rule(Str(action), bytes, Str(source), Str(sAll), Str(sAll), Absent, log) :
        action \in {s_accept, sDENY},
        bytes \in {Absent, Str(s15420MB)},
        source \in {sAll, sLan},
        log \in {Absent, Str(sAll)}}

\* rules for the permissiveness classifier
PermRules ==
    {Rule(Str(action), Absent, source, destination, Str(service), Absent, Absent) :
        action \in {sACCEPT, sDENY},
        source \in {Absent, Str(<< "A", "L", "L" >>), Str(sLan)},
        destination \in {List(<< sLan, << "m", "a", "n", "y" >> >>), Str(sLan)},
        service \in {sEmpty, sTcp}}

\* rules for the duplicate detector: "lan" and "lan " have one signature
DupRules ==
    {Rule(Str(action), Absent, Str(source), Str(sLan), Str(sTcp), Str(sPort1), Absent) :
        action \in {s_accept, sDENY},
        source \in {sLan, << "l", "a", "n", " " >>, sTcp}}

\* rules for the logging auditor
LogRules ==
    {Rule(action, Absent, Str(sLan), Str(sLan), Str(sTcp), Absent, log) :
        action \in {Str(sACCEPT), Str(sDENY)},
        log \in {Absent, Null, Str(<< " ", "N", "o", "n", "e" >>), Str(sAll),
                 List(<< sDisable >>), List(<< sDisable, sAll >>)}}

\* rules for the unused-rule detector
UnusedRules ==
    {Rule(action, bytes, Str(sLan), Str(sLan), Str(sTcp), Absent, Absent) :
        action \in {Str(s_Accept), List(<< s_accept >>), Str(sDENY), Absent},
        bytes \in {Absent, Null, Str(sZeroB), Str(s15420MB),
                   Str(<< "0", ".", "0", " ", "B" >>), Str(<< "M", "B" >>)}}

\* arguments of _extract_bytes_value
ByteChars == {"0", "1", "5", ".", " ", "B"}

ByteArgs ==
    {Str(s) : s \in SeqsUpTo(ByteChars, MaxLen)}
    \cup {Absent, Null, Str(s15420MB), List(<< >>), List(<< sZeroB >>)}

(***************************************************************************)
(* The state of one run of main().                                         *)
(***************************************************************************)
VARIABLES
    file,          \* what policycheck-forti.json holds
    user_data,     \* main's user_data
    pc,            \* where the run is
    has_policies,  \* hasattr(auditor, 'policies')
    policies,      \* auditor.policies
    has_results,   \* hasattr(auditor, 'results')
    results,       \* auditor.results
    calls,         \* the classifiers called so far, in order
    writes,        \* the keys of self.results assigned so far, in order
    report,        \* << >>, or << the report assembled >>
    saved,         \* the report is on disk
    fn_arg,        \* the argument of a call of _extract_bytes_value alone
    fn_ret,        \* << >>, or << what that call returned >>
    progress,      \* classifiers run in any order: the rules each has looked at
    acc,           \* ... the local lists each has built so far
    done           \* ... the classifiers that have assigned their keys

vars == << file, user_data, pc, has_policies, policies, has_results, results,
           calls, writes, report, saved, fn_arg, fn_ret, progress, acc, done >>

auditor_vars == << has_policies, policies, has_results, results, calls, writes,
                   report, saved >>

fn_vars == << fn_arg, fn_ret >>

order_vars == << progress, acc, done >>

\* the local lists of the four classifiers before their loops
EmptyLists ==
    [unused_rules |-> << >>, all_all_rules |-> << >>, single_all_rules |-> << >>,
     rule_signatures |-> << >>, no_logging |-> << >>, with_logging |-> << >>]

NotStarted ==
    /\ progress = [name \in {"audit_unused_rules", "audit_permissive_rules",
                             "audit_duplicate_rules", "audit_logging"} |-> 0]
    /\ acc = EmptyLists
    /\ done = {}

InitRun(Docs) ==
    /\ file \in Docs
    /\ user_data = NoneDoc
    /\ pc = "main"
    /\ has_policies = FALSE
    /\ policies = << >>
    /\ has_results = FALSE
    /\ results = << >>
    /\ calls = << >>
    /\ writes = << >>
    /\ report = << >>
    /\ saved = FALSE
    /\ fn_arg = Absent
    /\ fn_ret = << >>
    /\ NotStarted

Init == InitRun(Documents(MixedRules, MaxRules))
InitPerm == InitRun(Documents(PermRules, MaxRulesPerm))
InitDup == InitRun(Documents(DupRules, MaxRulesDup))
InitLog == InitRun(Documents(LogRules, MaxRulesLog))
InitUnused == InitRun(Documents(UnusedRules, MaxRulesUnused))

\* user_data = load_json_from_file()
Load ==
    /\ pc = "main"
    /\ user_data' = file
    /\ pc' = "loaded"
    /\ UNCHANGED << file, auditor_vars, fn_vars, order_vars >>

\* if not user_data: return
CheckUserData ==
    /\ pc = "loaded"
    /\ pc' = IF DocFalsy(user_data) THEN "fatal" ELSE "init"
    /\ UNCHANGED << file, user_data, auditor_vars, fn_vars, order_vars >>

\* FortigateAuditor(json_data=user_data): the return in __init__ leaves the
\* object constructed, with policies and without results
Construct ==
    /\ pc = "init"
    /\ policies' = Unwrap(user_data)
    /\ has_policies' = TRUE
    /\ has_results' = (Unwrap(user_data) # << >>)
    /\ results' = << >>
    /\ pc' = "check_auditor"
    /\ UNCHANGED << file, user_data, calls, writes, report, saved, fn_vars, order_vars >>

\* if not auditor or not hasattr(auditor, 'policies'): return
CheckAuditor ==
    /\ pc = "check_auditor"
    /\ pc' = IF ~has_policies THEN "init_failed" ELSE "audit_unused"
    /\ UNCHANGED << file, user_data, auditor_vars, fn_vars, order_vars >>

\* self.results[key] = value
Put(map, key, value) ==
    [k \in DOMAIN map \cup {key} |-> IF k = key THEN value ELSE map[k]]

Written(by, key) == [by |-> by, key |-> key]

\* one classifier call of generate_json_report: the pass runs over the
\* policies, then assigns its keys; without self.results the assignment
\* raises AttributeError, which nothing catches
Classifier(at, name, next, assigned, keys) ==
    /\ pc = at
    /\ calls' = Append(calls, name)
    /\ IF has_results
       THEN /\ results' = assigned
            /\ writes' = writes \o [i \in 1..Len(keys) |-> Written(name, keys[i])]
            /\ pc' = next
       ELSE /\ pc' = "crashed"
            /\ UNCHANGED << results, writes >>
    /\ UNCHANGED << file, user_data, has_policies, policies, has_results,
                    report, saved, fn_vars, order_vars >>

AuditUnused ==
    Classifier("audit_unused", "audit_unused_rules", "audit_permissive",
        Put(results, "unused_rules", audit_unused_rules(policies)),
        << "unused_rules" >>)

AuditPermissive ==
    Classifier("audit_permissive", "audit_permissive_rules", "audit_duplicate",
        Put(Put(results, "all_all_rules", audit_permissive_rules(policies).all_all_rules),
            "single_all_rules", audit_permissive_rules(policies).single_all_rules),
        << "all_all_rules", "single_all_rules" >>)

AuditDuplicate ==
    Classifier("audit_duplicate", "audit_duplicate_rules", "audit_logging",
        Put(results, "duplicate_rules", audit_duplicate_rules(policies)),
        << "duplicate_rules" >>)

\* a variant that stores the logging findings under the key of another pass
AuditLoggingUnderUnusedKey ==
    Classifier("audit_logging", "audit_logging", "assemble",
        Put(results, "unused_rules", audit_logging(policies)),
        << "unused_rules" >>)

AuditLogging ==
    Classifier("audit_logging", "audit_logging", "assemble",
        Put(results, "logging", audit_logging(policies)),
        << "logging" >>)

\* report = {...}
Assemble ==
    /\ pc = "assemble"
    /\ report' = << Report(policies, results) >>
    /\ pc' = "save"
    /\ UNCHANGED << file, user_data, has_policies, policies, has_results,
                    results, calls, writes, saved, fn_vars, order_vars >>

\* json.dump(report, f): the write succeeds or raises
Save ==
    /\ pc = "save"
    /\ \E ok \in BOOLEAN :
          /\ saved' = ok
          /\ pc' = IF ok THEN "done" ELSE "save_failed"
    /\ UNCHANGED << file, user_data, has_policies, policies, has_results,
                    results, calls, writes, report, fn_vars, order_vars >>

Next ==
    \/ Load
    \/ CheckUserData
    \/ Construct
    \/ CheckAuditor
    \/ AuditUnused
    \/ AuditPermissive
    \/ AuditDuplicate
    \/ AuditLogging
    \/ Assemble
    \/ Save

Spec == Init /\ [][Next]_vars
SpecPerm == InitPerm /\ [][Next]_vars
SpecDup == InitDup /\ [][Next]_vars
SpecLog == InitLog /\ [][Next]_vars
SpecUnused == InitUnused /\ [][Next]_vars

(***************************************************************************)
(* _extract_bytes_value alone, on every short counter string.              *)
(***************************************************************************)
InitBytes ==
    /\ fn_arg \in ByteArgs
    /\ fn_ret = << >>
    /\ pc = "call"
    /\ file = NoneDoc
    /\ user_data = NoneDoc
    /\ has_policies = FALSE
    /\ policies = << >>
    /\ has_results = FALSE
    /\ results = << >>
    /\ calls = << >>
    /\ writes = << >>
    /\ report = << >>
    /\ saved = FALSE
    /\ NotStarted

\* policy.get('Bytes', '0 B') gives the function '0 B' for a missing key
ExtractBytesValue ==
    /\ pc = "call"
    /\ fn_ret' = << _extract_bytes_value(Get(fn_arg, sZeroB)) >>
    /\ pc' = "returned"
    /\ UNCHANGED << file, user_data, auditor_vars, fn_arg, order_vars >>

NextBytes == ExtractBytesValue

SpecBytes == InitBytes /\ [][NextBytes]_vars

(***************************************************************************)
(* Properties.                                                             *)
(***************************************************************************)
Ids(findings) == {findings[j].id : j \in 1..Len(findings)}

Ascending(findings) ==
    \A i, j \in 1..Len(findings) : i < j => findings[i].id < findings[j].id

Recommendations == report[1].recommendations

Entry(priority, category) ==
    {i \in 1..Len(Recommendations) :
        /\ Recommendations[i].priority = priority
        /\ Recommendations[i].category = category}

\* every entry of kind a comes before every entry of kind b
Precedes(a, b) == \A i \in a, j \in b : i < j

InOrder(kinds) ==
    \A m, n \in 1..Len(kinds) : m < n => Precedes(kinds[m], kinds[n])

\* C1 as stated: the recommendations are listed in the order CRITICAL/Security,
\* HIGH/Security, HIGH/Cleanup, MEDIUM/Optimization, MEDIUM/Monitoring, so the
\* all-wildcard entry comes before the unused-rules entry.
C1_CriticalFirst ==
    report # << >> =>
        InOrder(<< Entry("CRITICAL", "Security"), Entry("HIGH", "Security"),
                   Entry("HIGH", "Cleanup"), Entry("MEDIUM", "Optimization"),
                   Entry("MEDIUM", "Monitoring") >>)

\* C1 amended: the recommendations are listed in the order HIGH/Cleanup (unused
\* rules), CRITICAL/Security, HIGH/Security, MEDIUM/Optimization,
\* MEDIUM/Monitoring, each kind at most once and nothing else, so the
\* unused-rules entry comes before the all-wildcard entry.
C1_UnusedFirst ==
    report # << >> =>
        /\ InOrder(<< Entry("HIGH", "Cleanup"), Entry("CRITICAL", "Security"),
                      Entry("HIGH", "Security"), Entry("MEDIUM", "Optimization"),
                      Entry("MEDIUM", "Monitoring") >>)
        /\ \A i, j \in 1..Len(Recommendations) :
              /\ Recommendations[i].priority = Recommendations[j].priority
              /\ Recommendations[i].category = Recommendations[j].category
              => i = j
        /\ \A i \in 1..Len(Recommendations) :
              << Recommendations[i].priority, Recommendations[i].category >> \in
                  {<< "HIGH", "Cleanup" >>, << "CRITICAL", "Security" >>,
                   << "HIGH", "Security" >>, << "MEDIUM", "Optimization" >>,
                   << "MEDIUM", "Monitoring" >>}

\* a report whose recommendation list has all five entries
C1_Witness == report # << >> /\ Len(Recommendations) = 5

\* C2 as stated: once the unwrapped rule sequence is known to be empty, no
\* classifier is called and no report is assembled or written.
C2_FailFast ==
    (pc \notin {"main", "loaded"} /\ Unwrap(user_data) = << >>) =>
        calls = << >> /\ report = << >> /\ ~saved

HasAnyAll(field) == Contains(sAny, Lower(field)) \/ Contains(sAll, Lower(field))

Flags(policy, Test(_)) ==
    << Test(_safe_string(Get(policy.Source, sEmpty))),
       Test(_safe_string(Get(policy.Destination, sEmpty))),
       Test(_safe_string(Get(policy.Service, sEmpty))) >>

EqualsIgnoreCase(a, b) ==
    Len(a) = Len(b) /\ \A i \in 1..Len(a) : LowerChar(a[i]) = LowerChar(b[i])

IsAccept(policy) ==
    EqualsIgnoreCase(_safe_string(Get(policy.Action, sEmpty)), sACCEPT)

\* the two-tier classification by three booleans computed by Test
Classified(Test(_)) ==
    \A k \in 1..Len(policies) :
        LET flags == Flags(policies[k], Test)
            all == flags[1] /\ flags[2] /\ flags[3]
            some == flags[1] \/ flags[2] \/ flags[3]
            critical == k \in Ids(results["all_all_rules"])
            high == k \in Ids(results["single_all_rules"])
        IN /\ critical <=> (IsAccept(policies[k]) /\ all)
           /\ high <=> (IsAccept(policies[k]) /\ some /\ ~all)
           /\ ~(critical /\ high)
           /\ \A j \in 1..Len(results["all_all_rules"]) :
                 results["all_all_rules"][j].id = k =>
                     /\ results["all_all_rules"][j].risk_level = "CRITICAL"
                     /\ << results["all_all_rules"][j].src_any,
                           results["all_all_rules"][j].dst_any,
                           results["all_all_rules"][j].srv_any >> = flags
           /\ \A j \in 1..Len(results["single_all_rules"]) :
                 results["single_all_rules"][j].id = k =>
                     /\ results["single_all_rules"][j].risk_level = "HIGH"
                     /\ << results["single_all_rules"][j].src_any,
                           results["single_all_rules"][j].dst_any,
                           results["single_all_rules"][j].srv_any >> = flags

PermissiveDone == {"all_all_rules", "single_all_rules"} \subseteq DOMAIN results

\* C3 as stated: a field is a wildcard exactly when it contains "any" or "all"
\* (case-insensitively); an ACCEPT rule is CRITICAL iff all three fields are,
\* HIGH iff some but not all are, not flagged iff none is (so not with empty
\* fields); no other rule is flagged; the two lists are disjoint.
C3_SubstringOnly == PermissiveDone => Classified(HasAnyAll)

HasAnyAllOrEmpty(field) == field = sEmpty \/ HasAnyAll(field)

\* C3 amended: a field is a wildcard exactly when it is empty (absent, null or
\* an empty value) or contains "any" or "all" (case-insensitively); an ACCEPT
\* rule is CRITICAL iff all three fields are, HIGH iff some but not all are,
\* not flagged iff none is; no other rule is flagged; the lists are disjoint.
C3_EmptyIsWildcard == PermissiveDone => Classified(HasAnyAllOrEmpty)

\* an ACCEPT rule made CRITICAL by an empty field, beside one not flagged
C3_Witness ==
    /\ PermissiveDone
    /\ \E k \in Ids(results["all_all_rules"]) : policies[k].Source = Absent
    /\ \E k \in 1..Len(policies) :
          /\ IsAccept(policies[k])
          /\ k \notin Ids(results["all_all_rules"]) \cup Ids(results["single_all_rules"])

(***************************************************************************)
(* _extract_bytes_value, stated on the counter string itself.              *)
(***************************************************************************)
AllDigits(s) == \A i \in 1..Len(s) : s[i] \in Digits

\* the value of a digit string, most significant digit first
RECURSIVE Decimal(_)
Decimal(digits) ==
    IF digits = << >> THEN 0
    ELSE 10 * Decimal(SubSeq(digits, 1, Len(digits) - 1))
         + DigitValue(digits[Len(digits)])

\* s[a..b] is a longest run of digits that cannot be extended to the right
DigitRun(s, a, b) ==
    /\ 1 <= a /\ a <= b /\ b <= Len(s)
    /\ AllDigits(SubSeq(s, a, b))
    /\ (b < Len(s) => s[b + 1] \notin Digits)

\* number is the decimal number  digits [ "." digits ]  that starts at a
NumberAt(s, a, number) ==
    \E b \in a..Len(s) :
        /\ DigitRun(s, a, b)
        /\ IF b + 2 <= Len(s) /\ s[b + 1] = "." /\ s[b + 2] \in Digits
           THEN \E c \in (b + 2)..Len(s) :
                   /\ DigitRun(s, b + 2, c)
                   /\ number = [float |-> TRUE,
                                num |-> Decimal(SubSeq(s, a, b) \o SubSeq(s, b + 2, c)),
                                scale |-> c - (b + 1)]
           ELSE number = [float |-> TRUE, num |-> Decimal(SubSeq(s, a, b)), scale |-> 0]

CounterString == fn_arg.kind = "str" /\ fn_arg.items[1] \notin {sEmpty, sZeroB}

\* what the function returns for a missing counter, '0 B' and '15420 MB',
\* and for a string that starts with a number
LeadingNumberCases ==
    /\ fn_arg \in {Absent, Null, Str(sEmpty), Str(sZeroB)} => fn_ret[1] = IntZero
    /\ fn_arg = Str(s15420MB) =>
           fn_ret[1] = [float |-> TRUE, num |-> 15420, scale |-> 0]
    /\ (CounterString /\ fn_arg.items[1][1] \in Digits) =>
           NumberAt(fn_arg.items[1], 1, fn_ret[1])

\* C4 as stated: 0 for an absent counter and for "0 B", the leading decimal
\* number for a string that starts with one, and 0 for every string that does
\* not start with a number, even when digits occur later in it.
C4_LeadingNumberOnly ==
    fn_ret # << >> =>
        /\ LeadingNumberCases
        /\ (CounterString /\ fn_arg.items[1][1] \notin Digits) => IsZero(fn_ret[1])

\* C4 amended: 0 for an absent counter and for "0 B", the leading decimal
\* number for a string that starts with one, the first decimal number of the
\* string (the one at its first digit) for every string that holds a digit
\* anywhere, and 0 only for a string without any digit.
C4_FirstNumberAnywhere ==
    fn_ret # << >> =>
        /\ LeadingNumberCases
        /\ CounterString =>
              LET s == fn_arg.items[1] IN
              IF \E i \in 1..Len(s) : s[i] \in Digits
              THEN \E a \in 1..Len(s) :
                      /\ s[a] \in Digits
                      /\ \A i \in 1..(a - 1) : s[i] \notin Digits
                      /\ NumberAt(s, a, fn_ret[1])
              ELSE fn_ret[1] = IntZero

\* a number found behind a unit: "B 5" gives 5.0
C4_Witness ==
    /\ fn_arg = Str(<< "B", " ", "5" >>)
    /\ fn_ret = << [float |-> TRUE, num |-> 5, scale |-> 0] >>

(***************************************************************************)
(* The Results Map.                                                        *)
(***************************************************************************)
ClassifierNames ==
    {"audit_unused_rules", "audit_permissive_rules", "audit_duplicate_rules",
     "audit_logging"}

KeysWrittenBy(name) == {writes[i].key : i \in {j \in 1..Len(writes) : writes[j].by = name}}

Finished(name) == has_results /\ \E i \in 1..Len(calls) : calls[i] = name

WrittenOnce == \A i, j \in 1..Len(writes) : writes[i].key = writes[j].key => i = j

DisjointKeys ==
    \A a, b \in ClassifierNames : a # b => KeysWrittenBy(a) \cap KeysWrittenBy(b) = {}

\* C5 as stated: each classifier writes exactly one key, the keys of different
\* classifiers are disjoint, and no key is written again.
C5_OneKeyEach ==
    /\ \A name \in ClassifierNames :
          Finished(name) => Cardinality(KeysWrittenBy(name)) = 1
    /\ DisjointKeys
    /\ WrittenOnce

OwnKeys(name) ==
    CASE name = "audit_unused_rules" -> {"unused_rules"}
      [] name = "audit_permissive_rules" -> {"all_all_rules", "single_all_rules"}
      [] name = "audit_duplicate_rules" -> {"duplicate_rules"}
      [] name = "audit_logging" -> {"logging"}

\* C5 amended: audit_permissive_rules writes two keys (all_all_rules and
\* single_all_rules) and each other classifier exactly one; the keys of
\* different classifiers are disjoint, no key is written again, and a value
\* once written is not changed.
C5_OwnKeysOnce ==
    /\ [](/\ \A name \in ClassifierNames :
                KeysWrittenBy(name) = IF Finished(name) THEN OwnKeys(name) ELSE {}
          /\ DisjointKeys
          /\ WrittenOnce
          /\ DOMAIN results = {writes[i].key : i \in 1..Len(writes)})
    /\ [][\A key \in DOMAIN results :
             key \in DOMAIN results' /\ results'[key] = results[key]]_vars

\* all four classifiers have finished and written their five keys
C5_Witness == pc = "assemble" /\ Len(writes) = 5 /\ Len(calls) = 4

(***************************************************************************)
(* The classifiers' findings.                                              *)
(***************************************************************************)
NormalizesToZero(policy) == IsZero(_extract_bytes_value(Get(policy.Bytes, sZeroB)))

\* C6: audit_unused_rules flags a rule iff its action is ACCEPT in any letter
\* case and its bytes counter normalizes to 0, an absent counter being 0; a
\* rule with the counter "15420 MB" is never flagged, nor is a rule with
\* another action; the findings are in ascending position, each rule once.
C6_UnusedRules ==
    "unused_rules" \in DOMAIN results =>
        LET unused == results["unused_rules"] IN
        /\ \A k \in 1..Len(policies) :
              /\ k \in Ids(unused) <=>
                    (IsAccept(policies[k]) /\ NormalizesToZero(policies[k]))
              /\ (policies[k].Bytes = Absent /\ IsAccept(policies[k])) => k \in Ids(unused)
              /\ policies[k].Bytes = Str(s15420MB) => k \notin Ids(unused)
              /\ ~IsAccept(policies[k]) => k \notin Ids(unused)
        /\ Ids(unused) \subseteq 1..Len(policies)
        /\ Ascending(unused)

\* a flagged "Accept" rule without a counter before an ACCEPT rule in use
C6_Witness ==
    /\ "unused_rules" \in DOMAIN results
    /\ Len(policies) = 2
    /\ policies[1].Action = Str(s_Accept) /\ policies[1].Bytes = Absent
    /\ policies[2].Action = List(<< s_accept >>) /\ policies[2].Bytes = Str(s15420MB)
    /\ Ids(results["unused_rules"]) = {1}

\* how often position k occurs in a list of findings
Occurrences(findings, k) == Cardinality({j \in 1..Len(findings) : findings[j].id = k})

\* C7: audit_logging puts every rule, whatever its action, in exactly one of
\* no_logging and with_logging: in no_logging iff its trimmed, lower-cased log
\* setting is "", "none" or "disable"; the two lengths add up to the number
\* of rules.
C7_LoggingPartition ==
    "logging" \in DOMAIN results =>
        LET no == results["logging"].no_logging
            with == results["logging"].with_logging
        IN /\ \A k \in 1..Len(policies) :
                 /\ Occurrences(no, k) + Occurrences(with, k) = 1
                 /\ Occurrences(no, k) = 1 <=>
                       Strip(Lower(_safe_string(Get(policies[k].Log, sEmpty))))
                           \in {sEmpty, sNone, sDisable}
           /\ Len(no) + Len(with) = Len(policies)
           /\ Ids(no) \cup Ids(with) = 1..Len(policies)

\* a DENY rule logged, an ACCEPT rule with " None " and a rule without setting
C7_Witness ==
    /\ "logging" \in DOMAIN results
    /\ \E k \in Ids(results["logging"].with_logging) : policies[k].Action = Str(sDENY)
    /\ \E k \in Ids(results["logging"].no_logging) :
          policies[k].Log = Str(<< " ", "N", "o", "n", "e" >>)
    /\ \E k \in Ids(results["logging"].no_logging) : policies[k].Log = Absent

\* the positions of the ACCEPT rules that share the signature fields of k
SameSignature(k) ==
    {m \in 1..Len(policies) :
        /\ IsAccept(policies[m])
        /\ signature(policies[m]) = signature(policies[k])}

\* C8: every duplicate group holds positions of ACCEPT rules only, has at
\* least two members, reports the length of its member list as its count, and
\* shares no position with another group; a signature with one member gives
\* no group.
C8_DuplicateGroups ==
    "duplicate_rules" \in DOMAIN results =>
        LET groups == results["duplicate_rules"] IN
        /\ \A g \in 1..Len(groups) :
              /\ \A k \in Ids(groups[g].rules) :
                    k \in 1..Len(policies) /\ IsAccept(policies[k])
              /\ Len(groups[g].rules) >= 2
              /\ Cardinality(Ids(groups[g].rules)) = Len(groups[g].rules)
              /\ groups[g].count = Len(groups[g].rules)
        /\ \A g, h \in 1..Len(groups) :
              g # h => Ids(groups[g].rules) \cap Ids(groups[h].rules) = {}
        /\ \A k \in 1..Len(policies) :
              (IsAccept(policies[k]) /\ SameSignature(k) = {k}) =>
                  \A g \in 1..Len(groups) : k \notin Ids(groups[g].rules)

\* a group, an ACCEPT rule on its own and a DENY rule with the group's fields
C8_Witness ==
    /\ "duplicate_rules" \in DOMAIN results
    /\ Len(results["duplicate_rules"]) = 1
    /\ \E k \in 1..Len(policies) : IsAccept(policies[k]) /\ SameSignature(k) = {k}
    /\ \E k \in 1..Len(policies), m \in Ids(results["duplicate_rules"][1].rules) :
          ~IsAccept(policies[k]) /\ policies[k].Source = policies[m].Source

\* C9: the groups come in the order in which their signatures are first met
\* in the input (by the position of their first member, whenever they reach
\* two members), each group starts at the first rule with its signature, and
\* its members are in ascending position.
C9_FirstSeenOrder ==
    "duplicate_rules" \in DOMAIN results =>
        LET groups == results["duplicate_rules"] IN
        /\ \A g, h \in 1..Len(groups) :
              g < h => groups[g].rules[1].id < groups[h].rules[1].id
        /\ \A g \in 1..Len(groups) :
              /\ Ascending(groups[g].rules)
              /\ \A m \in SameSignature(groups[g].rules[1].id) :
                    groups[g].rules[1].id <= m

\* the first group got its second member after the second group got its own
C9_Witness ==
    /\ "duplicate_rules" \in DOMAIN results
    /\ Len(results["duplicate_rules"]) = 2
    /\ results["duplicate_rules"][1].rules[2].id > results["duplicate_rules"][2].rules[2].id

(***************************************************************************)
(* The report.                                                             *)
(***************************************************************************)
\* percent is count / total * 100 rounded to two places, in hundredths
Rounded(percent, count, total) ==
    /\ 2 * (percent * total - count * 10000) <= total
    /\ 2 * (count * 10000 - percent * total) <= total

Summary == report[1].summary
Details == report[1].detailed_results

CountsAndPercents ==
    /\ Summary.total_rules_analyzed = Len(policies)
    /\ report[1].audit_info.total_rules = Len(policies)
    /\ Summary.all_all_rules_count = Len(Details.all_all_rules)
    /\ Summary.single_all_rules_count = Len(Details.single_all_rules)
    /\ Summary.duplicate_groups_count = Len(Details.duplicate_rules)
    /\ Summary.unused_rules_count = Len(Details.unused_rules)
    /\ Summary.rules_without_logging = Len(Details.without_logging)
    /\ Len(policies) > 0 =>
          /\ Rounded(Summary.all_all_rules_percent,
                     Summary.all_all_rules_count, Len(policies))
          /\ Rounded(Summary.single_all_rules_percent,
                     Summary.single_all_rules_count, Len(policies))
          /\ Rounded(Summary.duplicate_groups_percent,
                     Summary.duplicate_groups_count, Len(policies))
          /\ Rounded(Summary.unused_rules_percent,
                     Summary.unused_rules_count, Len(policies))
          /\ Rounded(Summary.rules_without_logging_percent,
                     Summary.rules_without_logging, Len(policies))
    /\ Len(policies) = 0 =>
          /\ Summary.all_all_rules_percent = 0
          /\ Summary.single_all_rules_percent = 0
          /\ Summary.duplicate_groups_percent = 0
          /\ Summary.unused_rules_percent = 0
          /\ Summary.rules_without_logging_percent = 0

RunOver == pc \in {"fatal", "init_failed", "crashed", "done", "save_failed"}

\* C10 as stated: in the report each count is the length of its findings and
\* each percent is round(count / total_rules * 100, 2), 0 when total_rules is
\* 0; and a run over an empty rule sequence reaches the report assembler and
\* yields a report whose percents are all 0.
C10_ZeroTotalReport ==
    /\ report # << >> => CountsAndPercents
    /\ (RunOver /\ has_policies /\ policies = << >>) => report # << >>

\* C10 amended: in the report each count is the length of its findings and
\* each percent is round(count / total_rules * 100, 2); the report assembler
\* is never reached with total_rules = 0, a run over an empty rule sequence
\* ends without a report, so the guard for total_rules = 0 is never taken.
C10_NoZeroTotalReport ==
    /\ report # << >> => CountsAndPercents /\ Len(policies) > 0
    /\ (RunOver /\ has_policies /\ policies = << >>) => report = << >>

\* a report over three rules, one of them unused: 33.33 %
C10_Witness ==
    /\ report # << >>
    /\ Summary.total_rules_analyzed = 3
    /\ Summary.unused_rules_percent = 3333
    /\ Summary.rules_without_logging_percent = 6667

(***************************************************************************)
(* The recommendations against the Results Map.                            *)
(***************************************************************************)
\* the five categories: priority, category and the count in the Results Map
Categories ==
    {<< "HIGH", "Cleanup", Len(results["unused_rules"]) >>,
     << "CRITICAL", "Security", Len(results["all_all_rules"]) >>,
     << "HIGH", "Security", Len(results["single_all_rules"]) >>,
     << "MEDIUM", "Optimization", Len(results["duplicate_rules"]) >>,
     << "MEDIUM", "Monitoring", Len(results["logging"].no_logging) >>}

\* C11: the recommendation list has an entry for a category iff the count of
\* that category in the Results Map is greater than 0; the entry carries that
\* count, and no entry has count 0.
C11_EntryIffCount ==
    report # << >> =>
        /\ \A c \in Categories :
              /\ Entry(c[1], c[2]) # {} <=> c[3] > 0
              /\ \A i \in Entry(c[1], c[2]) : Recommendations[i].count = c[3]
        /\ \A i \in 1..Len(Recommendations) : Recommendations[i].count > 0

\* two unused rules reported; no duplicate group and no rule without logging,
\* and no entry for either
C11_Witness ==
    /\ report # << >>
    /\ results["duplicate_rules"] = << >>
    /\ Entry("MEDIUM", "Optimization") = {}
    /\ \E i \in Entry("HIGH", "Cleanup") : Recommendations[i].count = 2
    /\ results["logging"].no_logging = << >>
    /\ Entry("MEDIUM", "Monitoring") = {}

(***************************************************************************)
(* The four classifiers run in any order, one rule at a time: each loop    *)
(* body is a step, and the assignments after a loop are the classifier's   *)
(* last step.  The run starts where generate_json_report starts on a       *)
(* non-empty rule list, with self.results = {}; of its history it keeps    *)
(* the order of the assignments (writes), not the order of the calls.      *)
(***************************************************************************)
\* four rules that between them fall in every list of every classifier
OrderRules ==
    {Rule(Str(s_accept), Absent, Str(sAll), Str(sAll), Str(sAll), Absent, Absent),
     Rule(Str(s_accept), Str(s15420MB), Str(sLan), Str(sAll), Str(sAll), Absent, Str(sAll)),
     Rule(Str(s_accept), Absent, Str(sLan), Str(sAll), Str(sAll), Absent, Str(sAll)),
     Rule(Str(sDENY), Absent, Str(sLan), Str(sAll), Str(sAll), Absent, Absent)}

InitAnyOrder ==
    /\ file \in {ListDoc(rules) : rules \in SeqsUpTo(OrderRules, MaxRulesOrder) \ {<< >>}}
    /\ user_data = file
    /\ pc = "classifiers"
    /\ has_policies = TRUE
    /\ policies = file.rules
    /\ has_results = TRUE
    /\ results = << >>
    /\ calls = << >>
    /\ writes = << >>
    /\ report = << >>
    /\ saved = FALSE
    /\ fn_arg = Absent
    /\ fn_ret = << >>
    /\ NotStarted

\* one pass of the loop of classifier name, over the next rule
LoopStep(name, lists) ==
    /\ pc = "classifiers"
    /\ name \notin done
    /\ progress[name] < Len(policies)
    /\ progress' = [progress EXCEPT ![name] = @ + 1]
    /\ acc' = lists
    /\ UNCHANGED << file, user_data, pc, has_policies, policies, has_results,
                    results, calls, writes, report, saved, fn_vars, done >>

\* the assignments to self.results after the loop of classifier name
LoopEnd(name, assigned, keys) ==
    /\ pc = "classifiers"
    /\ name \notin done
    /\ progress[name] = Len(policies)
    /\ results' = assigned
    /\ writes' = writes \o [i \in 1..Len(keys) |-> Written(name, keys[i])]
    /\ done' = done \cup {name}
    /\ UNCHANGED << file, user_data, pc, has_policies, policies, has_results,
                    calls, report, saved, fn_vars, progress, acc >>

unused_finding(k) ==
    [id |-> k,
     name |-> PolicyName(policies[k], k),
     action |-> ActionOf(policies[k]),
     bytes |-> _safe_string(Get(policies[k].Bytes, sZeroB)),
     source |-> _safe_string(Get(policies[k].Source, sEmpty)),
     destination |-> _safe_string(Get(policies[k].Destination, sEmpty)),
     service |-> _safe_string(Get(policies[k].Service, sEmpty))]

UnusedStep ==
    LET k == progress["audit_unused_rules"] + 1 IN
    LoopStep("audit_unused_rules",
        IF k <= Len(policies) /\ unused_rule_flagged(policies[k])
        THEN [acc EXCEPT !.unused_rules = Append(@, unused_finding(k))]
        ELSE acc)

UnusedEnd ==
    LoopEnd("audit_unused_rules",
        Put(results, "unused_rules", acc.unused_rules), << "unused_rules" >>)

PermissiveStep ==
    LET k == progress["audit_permissive_rules"] + 1 IN
    LoopStep("audit_permissive_rules",
        IF k <= Len(policies) /\ permissive_flagged(policies[k])
        THEN IF permissive_critical(policies[k])
             THEN [acc EXCEPT !.all_all_rules =
                      Append(@, rule_info(policies, k, "CRITICAL"))]
             ELSE [acc EXCEPT !.single_all_rules =
                      Append(@, rule_info(policies, k, "HIGH"))]
        ELSE acc)

PermissiveEnd ==
    LoopEnd("audit_permissive_rules",
        Put(Put(results, "all_all_rules", acc.all_all_rules),
            "single_all_rules", acc.single_all_rules),
        << "all_all_rules", "single_all_rules" >>)

DuplicateStep ==
    LET k == progress["audit_duplicate_rules"] + 1 IN
    LoopStep("audit_duplicate_rules",
        IF k <= Len(policies) /\ ActionOf(policies[k]) = sACCEPT
        THEN [acc EXCEPT !.rule_signatures =
                 AppendToGroup(@, signature(policies[k]),
                     [id |-> k,
                      name |-> PolicyName(policies[k], k),
                      bytes |-> _safe_string(Get(policies[k].Bytes, sZeroB))])]
        ELSE acc)

\* the second loop of audit_duplicate_rules, over rule_signatures.items()
duplicates(groups) ==
    LET kept == SelectSeq(groups, is_duplicate_group)
    IN [g \in 1..Len(kept) |->
           [signature |-> kept[g].signature,
            rules |-> kept[g].rules,
            count |-> Len(kept[g].rules)]]

DuplicateEnd ==
    LoopEnd("audit_duplicate_rules",
        Put(results, "duplicate_rules", duplicates(acc.rule_signatures)),
        << "duplicate_rules" >>)

\* a variant in which the logging pass skips the rules that the unused-rule
\* pass has already reported
LoggingStepAfterUnused ==
    LET k == progress["audit_logging"] + 1 IN
    LoopStep("audit_logging",
        IF k > Len(policies) THEN acc
        ELSE IF k \in {results["unused_rules"][j].id :
                          j \in 1..ResultsLen(results, "unused_rules")}
        THEN acc
        ELSE IF no_logging_flagged(policies[k])
        THEN [acc EXCEPT !.no_logging = Append(@, log_rule_info(policies, k))]
        ELSE [acc EXCEPT !.with_logging = Append(@, log_rule_info(policies, k))])

LoggingStep ==
    LET k == progress["audit_logging"] + 1 IN
    LoopStep("audit_logging",
        IF k > Len(policies) THEN acc
        ELSE IF no_logging_flagged(policies[k])
        THEN [acc EXCEPT !.no_logging = Append(@, log_rule_info(policies, k))]
        ELSE [acc EXCEPT !.with_logging = Append(@, log_rule_info(policies, k))])

LoggingEnd ==
    LoopEnd("audit_logging",
        Put(results, "logging",
            [no_logging |-> acc.no_logging, with_logging |-> acc.with_logging]),
        << "logging" >>)

\* total = len(self.policies): all four classifiers have returned
AllReturned ==
    /\ pc = "classifiers"
    /\ done = {"audit_unused_rules", "audit_permissive_rules",
               "audit_duplicate_rules", "audit_logging"}
    /\ pc' = "assemble"
    /\ UNCHANGED << file, user_data, auditor_vars, fn_vars, order_vars >>

NextAnyOrder ==
    \/ UnusedStep
    \/ UnusedEnd
    \/ PermissiveStep
    \/ PermissiveEnd
    \/ DuplicateStep
    \/ DuplicateEnd
    \/ LoggingStep
    \/ LoggingEnd
    \/ AllReturned
    \/ Assemble
    \/ Save

SpecAnyOrder == InitAnyOrder /\ [][NextAnyOrder]_vars

\* the Results Map of the calls in the order of generate_json_report
SequentialResults ==
    Put(Put(Put(Put(Put(<< >>,
        "unused_rules", audit_unused_rules(policies)),
        "all_all_rules", audit_permissive_rules(policies).all_all_rules),
        "single_all_rules", audit_permissive_rules(policies).single_all_rules),
        "duplicate_rules", audit_duplicate_rules(policies)),
        "logging", audit_logging(policies))

\* C12: the classifiers are independent: in whatever order they run, and
\* however their per-rule steps interleave, each key gets the value the
\* sequential run gives it, so the final Results Map, and with it the summary,
\* the detailed findings and the recommendations, are those of the sequential
\* order of generate_json_report.
C12_OrderAgnostic ==
    /\ \A key \in DOMAIN results : results[key] = SequentialResults[key]
    /\ pc # "classifiers" => results = SequentialResults
    /\ report # << >> => report[1] = Report(policies, SequentialResults)

\* a report of a run in which the logging pass finished first and the
\* unused-rule pass last, each classifier with findings
C12_Witness ==
    /\ report # << >>
    /\ writes[1].key = "logging"
    /\ writes[5].key = "unused_rules"
    /\ writes[2].key = "duplicate_rules"
    /\ results["unused_rules"] # << >>
    /\ results["logging"].no_logging # << >>
    /\ results["duplicate_rules"] # << >>

(***************************************************************************)
(* Signatures of rules whose fields hold the delimiter.                    *)
(***************************************************************************)
\* source "a|b" with destination "c", and source "a" with destination "b|c"
BarRules ==
    {Rule(Str(action), Absent, Str(source), Str(destination), Str(sTcp),
          Str(sPort1), Absent) :
        action \in {s_accept, sDENY},
        source \in {<< "a", "|", "b" >>, << "a" >>},
        destination \in {<< "c" >>, << "b", "|", "c" >>}}

InitBar == InitRun(Documents(BarRules, MaxRulesBar))

SpecBar == InitBar /\ [][Next]_vars

\* the five normalized, trimmed signature fields of a rule
SignatureFields(policy) ==
    << Strip(_safe_string(Get(policy.Source, sEmpty))),
       Strip(_safe_string(Get(policy.Destination, sEmpty))),
       Strip(_safe_string(Get(policy.Service, sEmpty))),
       Strip(_safe_string(Get(policy.InterfacePair, sEmpty))),
       Upper(_safe_string(Get(policy.Action, sEmpty))) >>

InSameGroup(k, m) ==
    \E g \in 1..Len(results["duplicate_rules"]) :
        {k, m} \subseteq Ids(results["duplicate_rules"][g].rules)

\* C13: two ACCEPT rules are in the same duplicate group iff their five
\* signature fields are equal field by field; the '|' join never gives two
\* rules with different fields one signature, even when a field holds '|'.
C13_FieldwiseEquality ==
    "duplicate_rules" \in DOMAIN results =>
        \A k, m \in 1..Len(policies) :
            (k # m /\ IsAccept(policies[k]) /\ IsAccept(policies[m])) =>
                /\ InSameGroup(k, m) <=>
                      SignatureFields(policies[k]) = SignatureFields(policies[m])
                /\ signature(policies[k]) = signature(policies[m]) =>
                      SignatureFields(policies[k]) = SignatureFields(policies[m])

====
